---- MODULE Spec2Model ----
(***************************************************************************)
(* StatsConn (go/vt/topo/stats_conn.go): a wrapper around a topo Conn that *)
(* records timings and error counts per (Operation, Cell), bounds the      *)
(* concurrent reads with a weighted semaphore shared between the wrappers, *)
(* and rejects mutations while its readOnly flag is set.                   *)
(*                                                                         *)
(* Each caller p holds one StatsConn (the one of CellOf(p)) and makes one  *)
(* call; the wrapped Conn answers with any result and error.  Caller 1     *)
(* issues any operation, the other callers are read traffic (caller 2, of  *)
(* the other StatsConn, may issue a Create as well): only the reads meet   *)
(* in the semaphore, and SetReadOnly may run between any two steps of any  *)
(* call.                                                                   *)
(***************************************************************************)
EXTENDS Integers, Sequences, FiniteSets, TLC

\* Number of concurrent callers.
NumProcs == 2

\* Capacity of the semaphore handed to NewStatsConn (semaphore.Weighted.size).
size == 1

Procs == 1..NumProcs

\* The callers that issue mutations and the ungated operations too.
Clients == {1}

\* The callers that issue Create: caller 1 and a caller of the other StatsConn.
Writers == {1, 2}

Cells == {"zone1", "zone2"}

\* The StatsConn a caller uses: NewStatsConn(cell, conn, readSem), one per cell,
\* all built over the same readSem.
CellOf(p) == IF p % 2 = 1 THEN "zone1" ELSE "zone2"

ReadOps == {"ListDir", "Get", "GetVersion", "List"}

WriteOps == {"Create", "Update", "Delete"}

LockOps == {"Lock", "LockWithTTL", "LockName", "TryLock"}

MutationOps == WriteOps \cup LockOps

PassOps == {"Watch", "WatchRecursive", "NewLeaderParticipation", "Close"}

Ops == ReadOps \cup MutationOps \cup PassOps

\* The statsKey[0] values, and the methods of the wrapped Conn.
Labels == Ops \ {"TryLock"}

Methods == Ops

Keys == Labels \X Cells

Paths == {"/a/b"}

\* The largest ttl, in seconds.
MaxTTL == 5

\* The ttl values a caller passes to LockWithTTL (0: no ttl, 5: five seconds),
\* among all those internalLock accepts.
TTLs == {0, MaxTTL}

Expiries == 0..MaxTTL

LockTypes == {"Blocking", "NonBlocking", "Named"}

\* Errors. nil, ctx.Err(), the vterrors READ_ONLY error (it names the operation
\* and the path), and an error of the wrapped Conn.
NoErr == [kind |-> "nil", op |-> "", path |-> ""]

CtxErr == [kind |-> "canceled", op |-> "", path |-> ""]

ConnErr == [kind |-> "conn", op |-> "", path |-> ""]

ReadOnlyErr(label, path) == [kind |-> "READ_ONLY", op |-> label, path |-> path]

\* What the wrapped Conn may answer: a result or none, with an error or none.
ConnResults == {"nil", "v1"}

ConnErrors == {NoErr, ConnErr}

NoRet == [res |-> "nil", err |-> NoErr]

NoCall == [op |-> "", cell |-> "", path |-> "", ttl |-> 0, lockType |-> ""]

\* One step of a call, as the metrics sink, the semaphore and the wrapped Conn
\* see it: "queued" (Acquire blocks), "acquire", "readwait", "conn" (the Conn
\* method called, with the arguments), "connret" (what it returned), "error",
\* "timing", "release".
Event(ev, name, c) ==
    [ev |-> ev, name |-> name, cell |-> c, path |-> "", ttl |-> 0,
     res |-> "nil", err |-> NoErr]

ConnEvent(method, c, path, ttl) ==
    [ev |-> "conn", name |-> method, cell |-> c, path |-> path, ttl |-> ttl,
     res |-> "nil", err |-> NoErr]

ConnRetEvent(method, c, res, err) ==
    [ev |-> "connret", name |-> method, cell |-> c, path |-> "", ttl |-> 0,
     res |-> res, err |-> err]

Inc(f, k) == [f EXCEPT ![k] = @ + 1]

VARIABLES
    readOnly,   \* StatsConn.readOnly, per cell
    cur,        \* semaphore.Weighted.cur: the weight held
    waiters,    \* semaphore.Weighted.waiters: the callers queued, front first
    ready,      \* the queued callers whose ready channel was closed
    timings,    \* topoStatsConnTimings: samples per (Operation, Cell)
    errors,     \* topoStatsConnErrors: count per (Operation, Cell)
    waits,      \* topoStatsConnReadWaitTimings: samples per (Operation, Cell)
    connCalls,  \* calls received by the wrapped Conn, per (method, cell)
    pc,         \* where each caller is in its call
    call,       \* the call each caller makes: operation, cell, arguments
    ctxDone,    \* whether the caller's ctx is done
    ret,        \* what the call returned
    trace       \* the steps the caller's call has taken, in order

vars == <<readOnly, cur, waiters, ready, timings, errors, waits, connCalls,
          pc, call, ctxDone, ret, trace>>

sem == <<cur, waiters, ready>>

metrics == <<timings, errors, waits>>

Init ==
    /\ readOnly = [c \in Cells |-> FALSE]
    /\ cur = 0
    /\ waiters = <<>>
    /\ ready = {}
    /\ timings = [k \in Keys |-> 0]
    /\ errors = [k \in Keys |-> 0]
    /\ waits = [k \in Keys |-> 0]
    /\ connCalls = [k \in Methods \X Cells |-> 0]
    /\ pc = [p \in Procs |-> "idle"]
    /\ call = [p \in Procs |-> NoCall]
    /\ ctxDone = [p \in Procs |-> FALSE]
    /\ ret = [p \in Procs |-> NoRet]
    /\ trace = [p \in Procs |-> <<>>]

(***************************************************************************)
(* The semaphore (golang.org/x/sync/semaphore.Weighted), every weight 1.   *)
(***************************************************************************)

\* notifyWaiters: hand free weight to the queued callers, front first.
RECURSIVE notifyWaiters(_, _, _)
notifyWaiters(c, w, r) ==
    IF w = <<>> \/ size - c < 1
    THEN [cur |-> c, waiters |-> w, ready |-> r]
    ELSE notifyWaiters(c + 1, Tail(w), r \cup {Head(w)})

\* Acquire(ctx, 1) up to its select: ctx.Err() on a done ctx, the weight when
\* one is free and nobody is queued, else the caller queues.
semAcquire(done, c, w) ==
    IF done THEN "err"
    ELSE IF size - c >= 1 /\ w = <<>> THEN "ok"
    ELSE "wait"

\* Release(1).
semRelease(c, w, r) == notifyWaiters(c - 1, w, r)

\* waiters.Remove(elem).
RemoveWaiter(w, p) == SelectSeq(w, LAMBDA q : q # p)

\* Acquire, woken or not, finds its ctx done: a granted weight is put back,
\* a queued caller leaves the queue (and lets the next one in if it was first).
semAbandon(p, c, w, r) ==
    IF p \in r
    THEN notifyWaiters(c - 1, w, r \ {p})
    ELSE IF w # <<>> /\ Head(w) = p /\ size > c
         THEN notifyWaiters(c, RemoveWaiter(w, p), r)
         ELSE [cur |-> c, waiters |-> RemoveWaiter(w, p), ready |-> r]

SetSem(s) ==
    /\ cur' = s.cur
    /\ waiters' = s.waiters
    /\ ready' = s.ready

(***************************************************************************)
(* The lock dispatcher: internalLock's two switches.                       *)
(***************************************************************************)

\* Variant: every ttl, 0 too, is labelled "LockWithTTL".
LockLabel_AnyTTL(lockType, ttl) ==
    IF lockType = "Named" THEN "LockName"
    ELSE IF ttl >= 0 THEN "LockWithTTL"
    ELSE "Lock"

\* Variant: the ttl is looked at before the lock type.
LockLabel_TTLFirst(lockType, ttl) ==
    IF ttl # 0 THEN "LockWithTTL"
    ELSE IF lockType = "Named" THEN "LockName"
    ELSE "Lock"

\* statsKey[0].
LockLabel(lockType, ttl) ==
    IF lockType = "Named" THEN "LockName"
    ELSE IF ttl # 0 THEN "LockWithTTL"
    ELSE "Lock"

\* Variant: TryLock dispatched like Lock.
LockMethod_TryAsLock(lockType, ttl) ==
    IF lockType = "Named" THEN "LockName"
    ELSE IF ttl # 0 THEN "LockWithTTL"
    ELSE "Lock"

\* The method of the wrapped Conn that is called.
LockMethod(lockType, ttl) ==
    IF lockType = "NonBlocking" THEN "TryLock"
    ELSE IF lockType = "Named" THEN "LockName"
    ELSE IF ttl # 0 THEN "LockWithTTL"
    ELSE "Lock"

\* statsKey of a call, and the Conn method it is delegated to.
StatsLabel(cl) ==
    IF cl.op \in LockOps THEN LockLabel(cl.lockType, cl.ttl) ELSE cl.op

StatsKey(cl) == <<StatsLabel(cl), cl.cell>>

ConnMethod(cl) ==
    IF cl.op \in LockOps THEN LockMethod(cl.lockType, cl.ttl) ELSE cl.op

\* The ttl the wrapped Conn receives: only its LockWithTTL takes one.
ConnTTL(cl) == IF ConnMethod(cl) = "LockWithTTL" THEN cl.ttl ELSE 0

(***************************************************************************)
(* Steps shared by the handlers.                                           *)
(***************************************************************************)

\* Variant: return nil, err on an error.
Returned_NilOnErr(res, err) ==
    [res |-> IF err # NoErr THEN "nil" ELSE res, err |-> err]

\* return res, err: what the caller gets from what the wrapped Conn returned.
Returned(res, err) == [res |-> res, err |-> err]

Finish(p, r) ==
    /\ ret' = [ret EXCEPT ![p] = r]
    /\ pc' = [pc EXCEPT ![p] = "done"]

\* Variant: return nil, nil when Acquire failed.
ReadRefused_Swallow(p) ==
    /\ Finish(p, [res |-> "nil", err |-> NoErr])
    /\ UNCHANGED <<timings, errors, waits, connCalls, trace>>

\* st.conn.<method>(ctx, args...): the wrapped Conn receives the call.
Delegate(p, cl, before) ==
    /\ connCalls' = Inc(connCalls, <<ConnMethod(cl), cl.cell>>)
    /\ trace' = [trace EXCEPT ![p] =
                    @ \o before \o <<ConnEvent(ConnMethod(cl), cl.cell, cl.path, ConnTTL(cl))>>]
    /\ pc' = [pc EXCEPT ![p] = "conn"]

\* Variant: the error is not counted.
CountError_Never(cl, err) == errors

\* Variant: the count is made whether or not there is an error.
CountError_Always(cl, err) == Inc(errors, StatsKey(cl))

\* if err != nil { topoStatsConnErrors.Add(statsKey, 1) }
CountError(cl, err) ==
    IF err # NoErr THEN Inc(errors, StatsKey(cl)) ELSE errors

ErrorEvents(cl, err) ==
    IF err # NoErr THEN <<Event("error", StatsLabel(cl), cl.cell)>> ELSE <<>>

\* Variant: the wait sample is recorded once the wrapped Conn has been called.
ReadAcquired_WaitAfterConn(p, cl) ==
    /\ waits' = Inc(waits, StatsKey(cl))
    /\ connCalls' = Inc(connCalls, <<ConnMethod(cl), cl.cell>>)
    /\ trace' = [trace EXCEPT ![p] =
          @ \o <<Event("acquire", StatsLabel(cl), cl.cell),
                 ConnEvent(ConnMethod(cl), cl.cell, cl.path, ConnTTL(cl)),
                 Event("readwait", StatsLabel(cl), cl.cell)>>]
    /\ pc' = [pc EXCEPT ![p] = "conn"]
    /\ UNCHANGED <<timings, errors, ret>>

\* The read handlers after Acquire returned nil: defer Release, record the wait,
\* reset startTime, defer the timing, call the wrapped Conn.
ReadAcquired(p, cl) ==
    /\ waits' = Inc(waits, StatsKey(cl))
    /\ Delegate(p, cl, <<Event("acquire", StatsLabel(cl), cl.cell),
                         Event("readwait", StatsLabel(cl), cl.cell)>>)
    /\ UNCHANGED <<timings, errors, ret>>

\* The read handlers when Acquire returned an error: return nil, err.
ReadRefused(p) ==
    /\ Finish(p, Returned("nil", CtxErr))
    /\ UNCHANGED <<timings, errors, waits, connCalls, trace>>

(***************************************************************************)
(* ListDir, Get, GetVersion, List.                                         *)
(***************************************************************************)

\* Variant: the error of Acquire is dropped and the handler goes on.
ReadBegin_IgnoreErr(p, op, path, done) ==
    /\ pc[p] = "idle"
    /\ LET cl == [op |-> op, cell |-> CellOf(p), path |-> path, ttl |-> 0,
                  lockType |-> ""]
           a == semAcquire(done, cur, waiters)
       IN  /\ call' = [call EXCEPT ![p] = cl]
           /\ ctxDone' = [ctxDone EXCEPT ![p] = done]
           /\ CASE a = "err" ->
                   /\ ReadAcquired(p, cl)
                   /\ UNCHANGED sem
                [] a = "ok" ->
                   /\ cur' = cur + 1
                   /\ ReadAcquired(p, cl)
                   /\ UNCHANGED <<waiters, ready>>
                [] a = "wait" ->
                   /\ waiters' = Append(waiters, p)
                   /\ pc' = [pc EXCEPT ![p] = "wait"]
                   /\ trace' = [trace EXCEPT ![p] = <<Event("queued", op, CellOf(p))>>]
                   /\ UNCHANGED <<cur, ready, metrics, connCalls, ret>>
    /\ UNCHANGED readOnly

\* Variant: the reads make the readOnly check of the mutations first.
ReadBegin_ReadOnlyChecked(p, op, path, done) ==
    /\ pc[p] = "idle"
    /\ LET cl == [op |-> op, cell |-> CellOf(p), path |-> path, ttl |-> 0,
                  lockType |-> ""]
           a == semAcquire(done, cur, waiters)
       IN  /\ call' = [call EXCEPT ![p] = cl]
           /\ ctxDone' = [ctxDone EXCEPT ![p] = done]
           /\ CASE readOnly[cl.cell] ->
                   /\ Finish(p, Returned("nil", ReadOnlyErr(op, path)))
                   /\ UNCHANGED <<sem, metrics, connCalls, trace>>
                [] ~readOnly[cl.cell] /\ a = "err" ->
                   /\ ReadRefused(p)
                   /\ UNCHANGED sem
                [] ~readOnly[cl.cell] /\ a = "ok" ->
                   /\ cur' = cur + 1
                   /\ ReadAcquired(p, cl)
                   /\ UNCHANGED <<waiters, ready>>
                [] ~readOnly[cl.cell] /\ a = "wait" ->
                   /\ waiters' = Append(waiters, p)
                   /\ pc' = [pc EXCEPT ![p] = "wait"]
                   /\ trace' = [trace EXCEPT ![p] = <<Event("queued", op, CellOf(p))>>]
                   /\ UNCHANGED <<cur, ready, metrics, connCalls, ret>>
    /\ UNCHANGED readOnly

\* The handler up to and into readSem.Acquire(ctx, 1).
ReadBegin(p, op, path, done) ==
    /\ pc[p] = "idle"
    /\ LET cl == [op |-> op, cell |-> CellOf(p), path |-> path, ttl |-> 0,
                  lockType |-> ""]
           a == semAcquire(done, cur, waiters)
       IN  /\ call' = [call EXCEPT ![p] = cl]
           /\ ctxDone' = [ctxDone EXCEPT ![p] = done]
           /\ CASE a = "err" ->
                   /\ ReadRefused(p)
                   /\ UNCHANGED sem
                [] a = "ok" ->
                   /\ cur' = cur + 1
                   /\ ReadAcquired(p, cl)
                   /\ UNCHANGED <<waiters, ready>>
                [] a = "wait" ->
                   /\ waiters' = Append(waiters, p)
                   /\ pc' = [pc EXCEPT ![p] = "wait"]
                   /\ trace' = [trace EXCEPT ![p] = <<Event("queued", op, CellOf(p))>>]
                   /\ UNCHANGED <<cur, ready, metrics, connCalls, ret>>
    /\ UNCHANGED readOnly

ListDir(p) == \E path \in Paths, done \in BOOLEAN : ReadBegin(p, "ListDir", path, done)

Get(p) == \E path \in Paths, done \in BOOLEAN : ReadBegin(p, "Get", path, done)

GetVersion(p) == \E path \in Paths, done \in BOOLEAN : ReadBegin(p, "GetVersion", path, done)

List(p) == \E path \in Paths, done \in BOOLEAN : ReadBegin(p, "List", path, done)

\* The caller cancels ctx, or its deadline passes, while Acquire waits.
CtxCancel(p) ==
    /\ pc[p] = "wait"
    /\ ~ctxDone[p]
    /\ ctxDone' = [ctxDone EXCEPT ![p] = TRUE]
    /\ UNCHANGED <<readOnly, sem, metrics, connCalls, pc, call, ret, trace>>

\* Acquire's select takes <-ready: nil, unless ctx is done by now (then the
\* weight is released and ctx.Err() returned).
AcquireReady(p) ==
    /\ pc[p] = "wait"
    /\ p \in ready
    /\ IF ctxDone[p]
       THEN /\ SetSem(semAbandon(p, cur, waiters, ready))
            /\ ReadRefused(p)
       ELSE /\ ready' = ready \ {p}
            /\ ReadAcquired(p, call[p])
            /\ UNCHANGED <<cur, waiters>>
    /\ UNCHANGED <<readOnly, call, ctxDone>>

\* Variant: the error of a cancelled wait is dropped and the handler goes on.
AcquireCanceled_IgnoreErr(p) ==
    /\ pc[p] = "wait"
    /\ ctxDone[p]
    /\ SetSem(semAbandon(p, cur, waiters, ready))
    /\ ReadAcquired(p, call[p])
    /\ UNCHANGED <<readOnly, call, ctxDone>>

\* Acquire's select takes <-ctx.Done(): ctx.Err().
AcquireCanceled(p) ==
    /\ pc[p] = "wait"
    /\ ctxDone[p]
    /\ SetSem(semAbandon(p, cur, waiters, ready))
    /\ ReadRefused(p)
    /\ UNCHANGED <<readOnly, call, ctxDone>>

\* Variant: Release is not deferred, and the error path returns before it.
ReadReturn_LeakOnError(p) ==
    /\ pc[p] = "conn"
    /\ call[p].op \in ReadOps
    /\ \E res \in ConnResults, err \in ConnErrors :
        LET cl == call[p]
            lbl == StatsLabel(cl)
        IN  /\ errors' = CountError(cl, err)
            /\ timings' = Inc(timings, StatsKey(cl))
            /\ IF err # NoErr
               THEN UNCHANGED sem
               ELSE SetSem(semRelease(cur, waiters, ready))
            /\ trace' = [trace EXCEPT ![p] =
                  @ \o <<ConnRetEvent(ConnMethod(cl), cl.cell, res, err)>>
                    \o ErrorEvents(cl, err)
                    \o <<Event("timing", lbl, cl.cell)>>
                    \o (IF err # NoErr THEN <<>> ELSE <<Event("release", lbl, cl.cell)>>)]
            /\ Finish(p, Returned(res, err))
    /\ UNCHANGED <<readOnly, waits, connCalls, call, ctxDone>>

\* The wrapped Conn returns: count the error, then the deferred calls in
\* reverse order (the timing, Release(1)), and return what the Conn returned.
ReadReturn(p) ==
    /\ pc[p] = "conn"
    /\ call[p].op \in ReadOps
    /\ \E res \in ConnResults, err \in ConnErrors :
        LET cl == call[p]
            lbl == StatsLabel(cl)
        IN  /\ errors' = CountError(cl, err)
            /\ timings' = Inc(timings, StatsKey(cl))
            /\ SetSem(semRelease(cur, waiters, ready))
            /\ trace' = [trace EXCEPT ![p] =
                  @ \o <<ConnRetEvent(ConnMethod(cl), cl.cell, res, err)>>
                    \o ErrorEvents(cl, err)
                    \o <<Event("timing", lbl, cl.cell), Event("release", lbl, cl.cell)>>]
            /\ Finish(p, Returned(res, err))
    /\ UNCHANGED <<readOnly, waits, connCalls, call, ctxDone>>

(***************************************************************************)
(* Create, Update, Delete and the four lock entry points.                  *)
(***************************************************************************)

\* Variant: no readOnly check.
MutationBegin_Unchecked(p, cl) ==
    /\ pc[p] = "idle"
    /\ call' = [call EXCEPT ![p] = cl]
    /\ pc' = [pc EXCEPT ![p] = "checked"]
    /\ UNCHANGED <<readOnly, sem, metrics, connCalls, ctxDone, trace, ret>>

\* Variant: the timing is deferred before the readOnly check, so a rejected
\* call records one.
MutationBegin_TimedReject(p, cl) ==
    /\ pc[p] = "idle"
    /\ call' = [call EXCEPT ![p] = cl]
    /\ IF readOnly[cl.cell]
       THEN /\ Finish(p, Returned("nil", ReadOnlyErr(StatsLabel(cl), cl.path)))
            /\ timings' = Inc(timings, StatsKey(cl))
            /\ UNCHANGED <<errors, waits>>
       ELSE /\ pc' = [pc EXCEPT ![p] = "checked"]
            /\ UNCHANGED <<ret, metrics>>
    /\ UNCHANGED <<readOnly, sem, connCalls, ctxDone, trace>>

\* The handler up to the readOnly check: the READ_ONLY error, or go on.
MutationBegin(p, cl) ==
    /\ pc[p] = "idle"
    /\ call' = [call EXCEPT ![p] = cl]
    /\ IF readOnly[cl.cell]
       THEN Finish(p, Returned("nil", ReadOnlyErr(StatsLabel(cl), cl.path)))
       ELSE /\ pc' = [pc EXCEPT ![p] = "checked"]
            /\ UNCHANGED ret
    /\ UNCHANGED <<readOnly, sem, metrics, connCalls, ctxDone, trace>>

WriteCall(p, op, path) ==
    MutationBegin(p, [op |-> op, cell |-> CellOf(p), path |-> path, ttl |-> 0,
                      lockType |-> ""])

Create(p) == \E path \in Paths : WriteCall(p, "Create", path)

Update(p) == \E path \in Paths : WriteCall(p, "Update", path)

Delete(p) == \E path \in Paths : WriteCall(p, "Delete", path)

internalLock(p, op, path, lockType, ttl) ==
    MutationBegin(p, [op |-> op, cell |-> CellOf(p), path |-> path, ttl |-> ttl,
                      lockType |-> lockType])

Lock(p) == \E path \in Paths : internalLock(p, "Lock", path, "Blocking", 0)

LockWithTTL(p) ==
    \E path \in Paths, ttl \in TTLs : internalLock(p, "LockWithTTL", path, "Blocking", ttl)

LockName(p) == \E path \in Paths : internalLock(p, "LockName", path, "Named", 0)

TryLock(p) == \E path \in Paths : internalLock(p, "TryLock", path, "NonBlocking", 0)

\* Variant: the flag is read again right before the Conn call.
MutationInvoke_Recheck(p) ==
    /\ pc[p] = "checked"
    /\ IF readOnly[call[p].cell]
       THEN /\ Finish(p, Returned("nil", ReadOnlyErr(StatsLabel(call[p]), call[p].path)))
            /\ UNCHANGED <<connCalls, trace>>
       ELSE /\ Delegate(p, call[p], <<>>)
            /\ UNCHANGED ret
    /\ UNCHANGED <<readOnly, sem, metrics, call, ctxDone>>

\* Variant: the mutation takes a weight of the semaphore before the Conn call.
MutationInvoke_Gated(p) ==
    /\ pc[p] = "checked"
    /\ size - cur >= 1
    /\ cur' = cur + 1
    /\ Delegate(p, call[p], <<>>)
    /\ UNCHANGED <<readOnly, waiters, ready, metrics, call, ctxDone, ret>>

\* After the check: startTime, defer the timing, call the wrapped Conn.
MutationInvoke(p) ==
    /\ pc[p] = "checked"
    /\ Delegate(p, call[p], <<>>)
    /\ UNCHANGED <<readOnly, sem, metrics, call, ctxDone, ret>>

\* The wrapped Conn returns: count the error, record the timing, return.
MutationReturn(p) ==
    /\ pc[p] = "conn"
    /\ call[p].op \in MutationOps
    /\ \E res \in ConnResults, err \in ConnErrors :
        LET cl == call[p]
        IN  /\ errors' = CountError(cl, err)
            /\ timings' = Inc(timings, StatsKey(cl))
            /\ trace' = [trace EXCEPT ![p] =
                  @ \o <<ConnRetEvent(ConnMethod(cl), cl.cell, res, err)>>
                    \o ErrorEvents(cl, err)
                    \o <<Event("timing", StatsLabel(cl), cl.cell)>>]
            /\ Finish(p, Returned(res, err))
    /\ UNCHANGED <<readOnly, sem, waits, connCalls, call, ctxDone>>

(***************************************************************************)
(* Watch, WatchRecursive, NewLeaderParticipation, Close.                   *)
(***************************************************************************)

\* Variant: the readOnly check of the mutations, made here too.
PassBegin_ReadOnlyChecked(p, op, path) ==
    /\ pc[p] = "idle"
    /\ LET cl == [op |-> op, cell |-> CellOf(p), path |-> path, ttl |-> 0,
                  lockType |-> ""]
       IN  /\ call' = [call EXCEPT ![p] = cl]
           /\ IF readOnly[cl.cell]
              THEN /\ Finish(p, Returned("nil", ReadOnlyErr(op, path)))
                   /\ UNCHANGED <<connCalls, trace, sem, metrics, ctxDone, readOnly>>
              ELSE /\ Delegate(p, cl, <<>>)
                   /\ UNCHANGED <<readOnly, sem, metrics, ctxDone, ret>>

\* startTime, defer the timing, call the wrapped Conn.
PassBegin(p, op, path) ==
    /\ pc[p] = "idle"
    /\ LET cl == [op |-> op, cell |-> CellOf(p), path |-> path, ttl |-> 0,
                  lockType |-> ""]
       IN  /\ call' = [call EXCEPT ![p] = cl]
           /\ Delegate(p, cl, <<>>)
    /\ UNCHANGED <<readOnly, sem, metrics, ctxDone, ret>>

Watch(p) == \E path \in Paths : PassBegin(p, "Watch", path)

WatchRecursive(p) == \E path \in Paths : PassBegin(p, "WatchRecursive", path)

NewLeaderParticipation(p) == \E name \in Paths : PassBegin(p, "NewLeaderParticipation", name)

Close(p) == PassBegin(p, "Close", "")

\* Variant: the error of the wrapped Conn is counted, as the mutations do.
WatchReturn_CountsError(p) ==
    /\ pc[p] = "conn"
    /\ call[p].op \in {"Watch", "WatchRecursive"}
    /\ \E res \in ConnResults, err \in ConnErrors :
        LET cl == call[p]
        IN  /\ timings' = Inc(timings, StatsKey(cl))
            /\ errors' = CountError(cl, err)
            /\ trace' = [trace EXCEPT ![p] =
                  @ \o <<ConnRetEvent(cl.op, cl.cell, res, err)>>
                    \o ErrorEvents(cl, err)
                    \o <<Event("timing", cl.op, cl.cell)>>]
            /\ Finish(p, Returned(res, err))
    /\ UNCHANGED <<readOnly, sem, waits, connCalls, call, ctxDone>>

\* return st.conn.Watch(ctx, filePath) (and WatchRecursive): the timing only.
WatchReturn(p) ==
    /\ pc[p] = "conn"
    /\ call[p].op \in {"Watch", "WatchRecursive"}
    /\ \E res \in ConnResults, err \in ConnErrors :
        LET cl == call[p]
        IN  /\ timings' = Inc(timings, StatsKey(cl))
            /\ trace' = [trace EXCEPT ![p] =
                  @ \o <<ConnRetEvent(cl.op, cl.cell, res, err),
                         Event("timing", cl.op, cl.cell)>>]
            /\ Finish(p, Returned(res, err))
    /\ UNCHANGED <<readOnly, sem, errors, waits, connCalls, call, ctxDone>>

\* NewLeaderParticipation: count the error, record the timing, return.
LeaderReturn(p) ==
    /\ pc[p] = "conn"
    /\ call[p].op = "NewLeaderParticipation"
    /\ \E res \in ConnResults, err \in ConnErrors :
        LET cl == call[p]
        IN  /\ errors' = CountError(cl, err)
            /\ timings' = Inc(timings, StatsKey(cl))
            /\ trace' = [trace EXCEPT ![p] =
                  @ \o <<ConnRetEvent(cl.op, cl.cell, res, err)>>
                    \o ErrorEvents(cl, err)
                    \o <<Event("timing", cl.op, cl.cell)>>]
            /\ Finish(p, Returned(res, err))
    /\ UNCHANGED <<readOnly, sem, waits, connCalls, call, ctxDone>>

\* st.conn.Close() returns nothing.
CloseReturn(p) ==
    /\ pc[p] = "conn"
    /\ call[p].op = "Close"
    /\ timings' = Inc(timings, StatsKey(call[p]))
    /\ trace' = [trace EXCEPT ![p] =
          @ \o <<ConnRetEvent("Close", call[p].cell, "nil", NoErr),
                 Event("timing", "Close", call[p].cell)>>]
    /\ Finish(p, NoRet)
    /\ UNCHANGED <<readOnly, sem, errors, waits, connCalls, call, ctxDone>>

(***************************************************************************)
(* SetReadOnly, IsReadOnly.                                                *)
(***************************************************************************)

\* Variant: the flag is only ever raised.
SetReadOnly_Sticky(c, b) ==
    /\ readOnly' = [readOnly EXCEPT ![c] = @ \/ b]
    /\ UNCHANGED <<sem, metrics, connCalls, pc, call, ctxDone, ret, trace>>

SetReadOnly(c, b) ==
    /\ readOnly' = [readOnly EXCEPT ![c] = b]
    /\ UNCHANGED <<sem, metrics, connCalls, pc, call, ctxDone, ret, trace>>

\* return st.readOnly
IsReadOnly(c) == readOnly[c]

Next ==
    \/ \E p \in Procs :
        \/ ListDir(p)
        \/ Get(p)
        \/ GetVersion(p)
        \/ List(p)
        \/ CtxCancel(p)
        \/ AcquireReady(p)
        \/ AcquireCanceled(p)
        \/ ReadReturn(p)
    \/ \E p \in Writers :
        \/ Create(p)
        \/ MutationInvoke(p)
        \/ MutationReturn(p)
    \/ \E p \in Clients :
        \/ Update(p)
        \/ Delete(p)
        \/ Lock(p)
        \/ LockWithTTL(p)
        \/ LockName(p)
        \/ TryLock(p)
        \/ Watch(p)
        \/ WatchRecursive(p)
        \/ NewLeaderParticipation(p)
        \/ Close(p)
        \/ WatchReturn(p)
        \/ LeaderReturn(p)
        \/ CloseReturn(p)
    \/ \E c \in Cells, b \in BOOLEAN : SetReadOnly(c, b)

Spec == Init /\ [][Next]_vars

(***************************************************************************)
(* internalLock called with any lock type and any ttl, not only with the   *)
(* four pairs that Lock, LockWithTTL, LockName and TryLock pass.           *)
(***************************************************************************)

\* The entry point of a lock type.
LockEntry(lockType) ==
    CASE lockType = "Named" -> "LockName"
      [] lockType = "NonBlocking" -> "TryLock"
      [] OTHER -> "LockWithTTL"

Dispatch(p) ==
    \E path \in Paths, lockType \in LockTypes, ttl \in TTLs :
        internalLock(p, LockEntry(lockType), path, lockType, ttl)

DispatchNext ==
    \/ Next
    \/ \E p \in Clients : Dispatch(p)

DispatchSpec == Init /\ [][DispatchNext]_vars

(***************************************************************************)
(* The read traffic alone, under a fair scheduler: a read inside the       *)
(* wrapped Conn returns, and a caller whose Acquire can return runs.       *)
(***************************************************************************)

ReadNext ==
    \E p \in Procs :
        \/ ListDir(p)
        \/ Get(p)
        \/ GetVersion(p)
        \/ List(p)
        \/ CtxCancel(p)
        \/ AcquireReady(p)
        \/ AcquireCanceled(p)
        \/ ReadReturn(p)

ReadFairness ==
    \A p \in Procs :
        /\ WF_vars(ReadReturn(p))
        /\ WF_vars(AcquireReady(p))
        /\ WF_vars(AcquireCanceled(p))

LiveSpec == Init /\ [][ReadNext]_vars /\ ReadFairness

(***************************************************************************)
(* Reading a call's steps.                                                 *)
(***************************************************************************)

EvSeq(p, ev) == SelectSeq(trace[p], LAMBDA e : e.ev = ev)

EvCount(p, ev) == Len(EvSeq(p, ev))

\* Position of the first step of this kind (0: none).
EvPos(p, ev) ==
    IF EvCount(p, ev) = 0 THEN 0
    ELSE CHOOSE i \in DOMAIN trace[p] :
            /\ trace[p][i].ev = ev
            /\ \A j \in 1..(i - 1) : trace[p][j].ev # ev

Delegated(p) == EvCount(p, "conn") >= 1

ReadsInConn == {p \in Procs : pc[p] = "conn" /\ call[p].op \in ReadOps}

ReadsWaiting == {p \in Procs : pc[p] = "wait"}

\* The callers the semaphore has given a weight to and that have not resumed.
ReadsGranted == {p \in Procs : pc[p] = "wait" /\ p \in ready}

(***************************************************************************)
(* C1: a mutation (Create, Update, Delete, Lock, LockWithTTL, LockName,    *)
(* TryLock) invoked while the readOnly flag of its StatsConn is true       *)
(* returns the READ_ONLY error with a nil result, and no method of the     *)
(* wrapped Conn is called by that call.                                    *)
(***************************************************************************)
C1_ReadOnlyRejects ==
    /\ [][\A p \in Procs :
            (/\ pc[p] = "idle"
             /\ pc'[p] # "idle"
             /\ call'[p].op \in MutationOps
             /\ readOnly[call'[p].cell])
            => (/\ pc'[p] = "done"
                /\ ret'[p].res = "nil"
                /\ ret'[p].err.kind = "READ_ONLY"
                /\ connCalls' = connCalls
                /\ trace'[p] = <<>>)]_vars
    /\ [](\A p \in Procs :
            (pc[p] = "done" /\ ret[p].err.kind = "READ_ONLY") => ~Delegated(p))

C1_Witness ==
    \E p \in Procs :
        /\ pc[p] = "done"
        /\ call[p].op = "TryLock"
        /\ ret[p] = [res |-> "nil", err |-> ReadOnlyErr("Lock", "/a/b")]
        /\ readOnly[call[p].cell]
        /\ \A m \in Methods : connCalls[<<m, call[p].cell>>] = 0

(***************************************************************************)
(* C2: at most `size` reads (ListDir, Get, GetVersion, List) are inside    *)
(* the wrapped Conns at any time, over all StatsConns built on the same    *)
(* semaphore and however many callers read at once.                        *)
(***************************************************************************)
C2_AdmissionBound == Cardinality(ReadsInConn) <= size

\* size reads are delegated and one more caller, of another cell, waits.
C2_Witness ==
    /\ Cardinality(ReadsInConn) = size
    /\ \E p \in ReadsInConn, q \in ReadsWaiting :
        /\ call[p].cell # call[q].cell
        /\ ~ctxDone[q]

(***************************************************************************)
(* C3: a read that gets a weight acquires exactly 1 before the wrapped     *)
(* Conn is called and releases exactly 1 after it returned, error or not;  *)
(* a read whose Acquire failed releases nothing.  The weight held is the   *)
(* number of reads that hold one (those inside the wrapped Conn and those  *)
(* the semaphore has handed a weight to and that have not resumed yet);    *)
(* it is 0 when no read is in flight and never above size.                 *)
(***************************************************************************)
C3_AcquireReleasePaired ==
    /\ cur = Cardinality(ReadsInConn) + Cardinality(ReadsGranted)
    /\ cur >= 0
    /\ cur <= size
    /\ (ReadsInConn = {} /\ ReadsWaiting = {}) => (cur = 0 /\ waiters = <<>>)
    /\ \A p \in Procs :
        call[p].op \in ReadOps =>
            /\ (pc[p] = "conn") =>
                    /\ EvCount(p, "acquire") = 1
                    /\ EvCount(p, "release") = 0
                    /\ EvPos(p, "acquire") < EvPos(p, "conn")
            /\ (pc[p] = "done" /\ Delegated(p)) =>
                    /\ EvCount(p, "acquire") = 1
                    /\ EvCount(p, "release") = 1
                    /\ EvPos(p, "acquire") < EvPos(p, "conn")
                    /\ EvPos(p, "connret") < EvPos(p, "release")
            /\ (pc[p] = "done" /\ ~Delegated(p)) =>
                    /\ EvCount(p, "acquire") = 0
                    /\ EvCount(p, "release") = 0

\* One read failed inside the wrapped Conn, one was refused at the semaphore
\* after queueing, both have returned and every weight is free.
C3_Witness ==
    \E p, q \in Procs :
        /\ pc[p] = "done" /\ call[p].op \in ReadOps
        /\ ret[p].err = ConnErr
        /\ EvCount(p, "release") = 1
        /\ pc[q] = "done" /\ call[q].op \in ReadOps
        /\ ret[q].err = CtxErr
        /\ EvCount(q, "queued") = 1
        /\ cur = 0

(***************************************************************************)
(* C4: a read called with a ctx that is already done returns ctx.Err()     *)
(* and does not call the wrapped Conn, whatever the state of the           *)
(* semaphore, free weight included.                                        *)
(***************************************************************************)
C4_DoneCtxRefused ==
    [][\A p \in Procs :
        (/\ pc[p] = "idle"
         /\ pc'[p] # "idle"
         /\ call'[p].op \in ReadOps
         /\ ctxDone'[p])
        => (/\ pc'[p] = "done"
            /\ ret'[p] = [res |-> "nil", err |-> CtxErr]
            /\ connCalls' = connCalls
            /\ trace'[p] = <<>>
            /\ UNCHANGED sem)]_vars

\* A read refused without ever queueing while nobody else had called: every
\* weight was free.
C4_Witness ==
    \E p \in Procs :
        /\ pc[p] = "done"
        /\ call[p].op \in ReadOps
        /\ ret[p] = [res |-> "nil", err |-> CtxErr]
        /\ trace[p] = <<>>
        /\ cur = 0
        /\ \A q \in Procs \ {p} : pc[q] = "idle"
        /\ \A k \in Methods \X Cells : connCalls[k] = 0

(***************************************************************************)
(* C5: a read that waits for a weight and whose ctx becomes done before    *)
(* one is granted returns ctx.Err() with a nil result; the wrapped Conn is *)
(* not called for it, no read-wait sample, no timing and no error count is *)
(* recorded for it, and the weight held is what it was.                    *)
(***************************************************************************)
C5_CancelledWaitLeavesNoTrace ==
    /\ [][\A p \in Procs :
            (pc[p] = "wait" /\ p \notin ready /\ pc'[p] = "done")
            => (/\ ret'[p] = [res |-> "nil", err |-> CtxErr]
                /\ trace'[p] = trace[p]
                /\ UNCHANGED <<timings, errors, waits, connCalls>>
                /\ cur' = cur
                /\ ready' = ready
                /\ waiters' = RemoveWaiter(waiters, p))]_vars
    /\ [](\A p \in Procs :
            (pc[p] = "done" /\ EvCount(p, "queued") = 1 /\ ~Delegated(p))
            => (/\ ret[p] = [res |-> "nil", err |-> CtxErr]
                /\ Len(trace[p]) = 1))

\* A read queued behind a delegated read was cancelled and has returned; the
\* other read still holds its weight.
C5_Witness ==
    \E p, q \in Procs :
        /\ pc[p] = "done"
        /\ call[p].op \in ReadOps
        /\ EvCount(p, "queued") = 1
        /\ ret[p].err = CtxErr
        /\ q \in ReadsInConn
        /\ cur = size
        /\ waiters = <<>>
        /\ \A k \in Keys : timings[k] = 0 /\ errors[k] = 0

(***************************************************************************)
(* C6 as stated: every call of every operation, successful or failed,      *)
(* records exactly one timing under its own operation name and its cell,   *)
(* and every call whose Conn method returned an error also counts exactly  *)
(* one error.                                                              *)
(***************************************************************************)
C6_EveryCallTimedUnderOwnName ==
    \A p \in Procs :
        pc[p] = "done" =>
            /\ EvCount(p, "timing") = 1
            /\ EvSeq(p, "timing")[1].name = call[p].op
            /\ EvSeq(p, "timing")[1].cell = CellOf(p)
            /\ (Delegated(p) /\ EvSeq(p, "connret")[1].err # NoErr)
                    => EvCount(p, "error") = 1

\* The label a call is recorded under: its operation name, but "Lock" for
\* TryLock and for LockWithTTL without a ttl.
C6_Label(cl) ==
    IF cl.op = "TryLock" THEN "Lock"
    ELSE IF cl.op = "LockWithTTL" /\ cl.ttl = 0 THEN "Lock"
    ELSE cl.op

C6_CountsErrors(cl) == cl.op \notin {"Watch", "WatchRecursive", "Close"}

C6_Failed(p) ==
    /\ Delegated(p)
    /\ C6_CountsErrors(call[p])
    /\ EvSeq(p, "connret")[1].err # NoErr

(***************************************************************************)
(* C6 as amended: a call that is delegated to the wrapped Conn records     *)
(* exactly one timing, under its cell and its own operation name ("Lock"   *)
(* for TryLock and for LockWithTTL with ttl 0); a mutation rejected as     *)
(* read-only and a read refused at the semaphore record none.  A delegated *)
(* call whose Conn method returned an error counts exactly one error under *)
(* the same key, except Watch and WatchRecursive, which count none.        *)
(***************************************************************************)
C6_DelegatedCallsTimedOnce ==
    /\ \A p \in Procs :
        /\ pc[p] # "done" => (EvCount(p, "timing") = 0 /\ EvCount(p, "error") = 0)
        /\ pc[p] = "done" =>
            /\ EvCount(p, "timing") = (IF Delegated(p) THEN 1 ELSE 0)
            /\ EvCount(p, "error") = (IF C6_Failed(p) THEN 1 ELSE 0)
            /\ \A i \in DOMAIN trace[p] :
                trace[p][i].ev \in {"timing", "error"} =>
                    /\ trace[p][i].name = C6_Label(call[p])
                    /\ trace[p][i].cell = CellOf(p)
    /\ LET timed == {p \in Procs : pc[p] = "done" /\ Delegated(p)}
           failed == {p \in timed : C6_Failed(p)}
           key == [p \in timed |-> <<C6_Label(call[p]), CellOf(p)>>]
       IN  \A k \in Keys :
            /\ timings[k] = Cardinality({p \in timed : key[p] = k})
            /\ errors[k] = Cardinality({p \in failed : key[p] = k})

\* A failed Watch (timed, not counted) beside a failed read (timed, counted).
C6_Witness ==
    \E p, q \in Procs :
        /\ pc[p] = "done" /\ call[p].op = "Watch"
        /\ ret[p].err = ConnErr
        /\ timings[<<"Watch", CellOf(p)>>] = 1
        /\ errors[<<"Watch", CellOf(p)>>] = 0
        /\ pc[q] = "done" /\ call[q].op = "Get"
        /\ ret[q].err = ConnErr
        /\ timings[<<"Get", CellOf(q)>>] = 1
        /\ errors[<<"Get", CellOf(q)>>] = 1

(***************************************************************************)
(* C7: with the readOnly flag false, Lock is recorded under "Lock" and     *)
(* calls the Conn's Lock; LockWithTTL with a nonzero ttl is recorded under *)
(* "LockWithTTL" and calls LockWithTTL with that ttl; LockName is recorded *)
(* under "LockName" and calls LockName; TryLock is recorded under "Lock"   *)
(* and calls TryLock.  Each call calls exactly one lock method, once.      *)
(***************************************************************************)
C7_LockEntryPoints ==
    \A p \in Procs :
        (call[p].op \in LockOps /\ pc[p] \in {"conn", "done"} /\ Delegated(p)) =>
        LET op == call[p].op
            c == EvSeq(p, "conn")
            nonzero == call[p].ttl # 0
            wantLabel == CASE op = "Lock" -> "Lock"
                           [] op = "LockWithTTL" -> "LockWithTTL"
                           [] op = "LockName" -> "LockName"
                           [] op = "TryLock" -> "Lock"
        IN  /\ Len(c) = 1
            /\ c[1].name \in LockOps
            /\ \A m \in LockOps :
                connCalls[<<m, CellOf(p)>>] = (IF m = c[1].name THEN 1 ELSE 0)
            /\ (op # "LockWithTTL" \/ nonzero) =>
                /\ c[1].name = op
                /\ c[1].ttl = call[p].ttl
                /\ pc[p] = "done" =>
                    /\ EvCount(p, "timing") = 1
                    /\ EvSeq(p, "timing")[1].name = wantLabel
                    /\ timings[<<wantLabel, CellOf(p)>>] = 1

\* TryLock has returned: the Conn's TryLock was called, the timing is under "Lock".
C7_Witness ==
    \E p \in Procs :
        /\ pc[p] = "done"
        /\ call[p].op = "TryLock"
        /\ ~readOnly[CellOf(p)]
        /\ connCalls[<<"TryLock", CellOf(p)>>] = 1
        /\ connCalls[<<"Lock", CellOf(p)>>] = 0
        /\ timings[<<"Lock", CellOf(p)>>] = 1

(***************************************************************************)
(* C8 as stated: a delegated operation (a read that got a weight, a        *)
(* mutation with the flag false, Watch, WatchRecursive,                    *)
(* NewLeaderParticipation) calls the method of the wrapped Conn that       *)
(* matches it exactly once, with the caller's arguments, and returns       *)
(* exactly the result and the error that method returned.                  *)
(***************************************************************************)
C8_SameMethodPassthrough ==
    \A p \in Procs :
        Delegated(p) =>
            LET c == EvSeq(p, "conn")
                r == EvSeq(p, "connret")
            IN  /\ Len(c) = 1
                /\ c[1].name = call[p].op
                /\ c[1].cell = CellOf(p)
                /\ c[1].path = call[p].path
                /\ c[1].ttl = call[p].ttl
                /\ pc[p] = "done" =>
                    /\ Len(r) = 1
                    /\ ret[p] = [res |-> r[1].res, err |-> r[1].err]

\* The Conn method an operation is delegated to: the one of its name, but Lock
\* for LockWithTTL without a ttl.
C8_Method(cl) ==
    IF cl.op = "LockWithTTL" /\ cl.ttl = 0 THEN "Lock" ELSE cl.op

(***************************************************************************)
(* C8 as amended: a delegated operation calls the method of the wrapped    *)
(* Conn of its own name exactly once, with the caller's arguments, and     *)
(* returns exactly the result and the error that method returned, a result *)
(* that comes with an error included; except that LockWithTTL with ttl 0   *)
(* calls the Conn's Lock (and returns what Lock returned).                 *)
(***************************************************************************)
C8_Passthrough ==
    /\ \A p \in Procs :
        Delegated(p) =>
            LET c == EvSeq(p, "conn")
                r == EvSeq(p, "connret")
            IN  /\ Len(c) = 1
                /\ c[1].name = C8_Method(call[p])
                /\ c[1].cell = CellOf(p)
                /\ c[1].path = call[p].path
                /\ c[1].ttl = call[p].ttl
                /\ pc[p] = "conn" => Len(r) = 0
                /\ pc[p] = "done" =>
                    /\ Len(r) = 1
                    /\ r[1].name = c[1].name
                    /\ ret[p] = [res |-> r[1].res, err |-> r[1].err]
    /\ LET called == {p \in Procs : Delegated(p)}
           key == [p \in called |-> <<C8_Method(call[p]), CellOf(p)>>]
       IN  \A k \in Methods \X Cells :
            connCalls[k] = Cardinality({p \in called : key[p] = k})

\* A Get and an Update both came back with a result and an error.
C8_Witness ==
    \E p, q \in Procs :
        /\ pc[p] = "done" /\ call[p].op = "Get"
        /\ ret[p] = [res |-> "v1", err |-> ConnErr]
        /\ pc[q] = "done" /\ call[q].op = "Update"
        /\ ret[q] = [res |-> "v1", err |-> ConnErr]

(***************************************************************************)
(* C9: a new StatsConn is not read-only; in every state SetReadOnly(b)     *)
(* can be called and leaves IsReadOnly = b, whatever the flag was (true    *)
(* twice stays true, false after true is false), and nothing else writes   *)
(* the flag, so IsReadOnly is the argument of the latest call; SetReadOnly *)
(* changes the flag of its StatsConn and nothing else: not the semaphore,  *)
(* not the metrics, not the wrapped Conn, no call in flight.               *)
(***************************************************************************)
C9_SetReadOnlyOverwrites ==
    /\ \A c \in Cells : ~IsReadOnly(c)
    /\ [](\A c \in Cells, b \in BOOLEAN :
            /\ ENABLED SetReadOnly(c, b)
            /\ ~ENABLED (/\ SetReadOnly(c, b)
                         /\ ~(/\ IsReadOnly(c)' = b
                              /\ \A d \in Cells \ {c} : IsReadOnly(d)' = IsReadOnly(d)
                              /\ UNCHANGED <<sem, metrics, connCalls, pc, call,
                                             ctxDone, ret, trace>>)))
    /\ [][(readOnly' # readOnly) =>
            /\ \E c \in Cells, b \in BOOLEAN : SetReadOnly(c, b)
            /\ UNCHANGED <<sem, metrics, connCalls, pc, call, ctxDone, ret, trace>>]_vars

\* The flag of zone1 was true (a mutation was rejected) and is false again,
\* while a read holds a weight and the other flag is true.
C9_Witness ==
    /\ ~IsReadOnly("zone1")
    /\ IsReadOnly("zone2")
    /\ \E p \in Procs :
        /\ CellOf(p) = "zone1"
        /\ pc[p] = "done"
        /\ ret[p].err.kind = "READ_ONLY"
    /\ cur = 1

(***************************************************************************)
(* C10: Watch, WatchRecursive, NewLeaderParticipation and Close are not    *)
(* gated and not subject to the readOnly flag: in every state, all weights *)
(* held and the flag true included, each is delegated to the wrapped Conn  *)
(* at once, and none of their steps changes the weight held.               *)
(***************************************************************************)
C10_PassOpsUngated ==
    /\ [](\A p \in Clients :
            pc[p] = "idle" =>
                /\ ENABLED Watch(p)
                /\ ENABLED WatchRecursive(p)
                /\ ENABLED NewLeaderParticipation(p)
                /\ ENABLED Close(p))
    /\ [][\A p \in Procs :
            (call'[p].op \in PassOps /\ pc'[p] # pc[p]) =>
                /\ UNCHANGED sem
                /\ pc[p] = "idle" =>
                    /\ pc'[p] = "conn"
                    /\ connCalls' = Inc(connCalls, <<call'[p].op, CellOf(p)>>)
                    /\ trace'[p] = <<ConnEvent(call'[p].op, CellOf(p), call'[p].path, 0)>>
                /\ pc[p] = "conn" => pc'[p] = "done"]_vars

\* A Watch is inside the wrapped Conn of a read-only StatsConn while reads
\* hold every weight.
C10_Witness ==
    \E p \in Procs :
        /\ call[p].op = "Watch"
        /\ pc[p] = "conn"
        /\ readOnly[CellOf(p)]
        /\ cur = size
        /\ Cardinality(ReadsInConn) = size

(***************************************************************************)
(* C11: a mutation rejected because the readOnly flag is set changes       *)
(* nothing that can be observed of the StatsConn: the weight held and the  *)
(* queue of the semaphore, the timings, the read-wait samples, the error   *)
(* counts and the flag itself are what they were.                          *)
(***************************************************************************)
C11_RejectionChangesNothing ==
    [][\A p \in Procs :
        (/\ pc[p] = "idle"
         /\ pc'[p] = "done"
         /\ ret'[p].err.kind = "READ_ONLY")
        => (/\ call'[p].op \in MutationOps
            /\ UNCHANGED <<cur, waiters, ready>>
            /\ UNCHANGED <<timings, waits, errors>>
            /\ UNCHANGED readOnly
            /\ EvCount(p, "acquire")' = 0
            /\ EvCount(p, "release")' = 0
            /\ EvCount(p, "timing")' = 0
            /\ EvCount(p, "error")' = 0)]_vars

\* A Delete was rejected while a read of the other StatsConn holds a weight:
\* the weight, the read's wait sample and the flag are all that is recorded.
C11_Witness ==
    \E p, q \in Procs :
        /\ pc[p] = "done"
        /\ call[p].op = "Delete"
        /\ ret[p].err = ReadOnlyErr("Delete", "/a/b")
        /\ readOnly[CellOf(p)]
        /\ q \in ReadsInConn
        /\ cur = 1
        /\ \A k \in Keys : timings[k] = 0 /\ errors[k] = 0
        /\ \A k \in Keys : waits[k] = (IF k = StatsKey(call[q]) THEN 1 ELSE 0)

(***************************************************************************)
(* C12: the mutations never meet the semaphore.  With the readOnly flag    *)
(* false, Create, Update, Delete, Lock, LockWithTTL, LockName and TryLock  *)
(* pass the check and are delegated to the wrapped Conn in every state,    *)
(* every weight held by reads included, and no step of a mutation changes  *)
(* the weight held or the queue.                                           *)
(***************************************************************************)
C12_MutationsUngated ==
    /\ [](\A p \in Clients :
            pc[p] = "idle" =>
                /\ ENABLED Create(p)
                /\ ENABLED Update(p)
                /\ ENABLED Delete(p)
                /\ ENABLED Lock(p)
                /\ ENABLED LockWithTTL(p)
                /\ ENABLED LockName(p)
                /\ ENABLED TryLock(p))
    /\ [](\A p \in Writers :
            pc[p] = "checked" =>
                /\ ENABLED MutationInvoke(p)
                /\ ~ENABLED (MutationInvoke(p) /\ pc'[p] # "conn"))
    /\ [][\A p \in Procs :
            (call'[p].op \in MutationOps /\ pc'[p] # pc[p]) =>
                /\ UNCHANGED <<cur, waiters, ready>>
                /\ (pc[p] = "idle" /\ ~readOnly[CellOf(p)]) => pc'[p] = "checked"
                /\ pc[p] = "checked" =>
                    /\ pc'[p] = "conn"
                    /\ connCalls' = Inc(connCalls, <<ConnMethod(call[p]), CellOf(p)>>)
                /\ pc[p] = "conn" => pc'[p] = "done"]_vars

\* An Update is inside the wrapped Conn while reads hold every weight, and the
\* weight held is that of the reads alone.
C12_Witness ==
    \E p \in Procs :
        /\ call[p].op = "Update"
        /\ pc[p] = "conn"
        /\ ~readOnly[CellOf(p)]
        /\ cur = size
        /\ Cardinality(ReadsInConn) = size
        /\ connCalls[<<"Update", CellOf(p)>>] = 1

(***************************************************************************)
(* C13: the readOnly check of a mutation and its Conn call are two steps,  *)
(* and SetReadOnly can run between them and after them.  A mutation that   *)
(* passed the check is delegated whatever the flag is by then, so the      *)
(* wrapped Conn is called for a mutation while the flag is true; a         *)
(* rejection stands whatever the flag becomes, so a mutation has returned  *)
(* the READ_ONLY error while the flag is false.                            *)
(***************************************************************************)
C13_CheckNotAtomicWithCall ==
    /\ [](\A p \in Writers :
            pc[p] = "checked" =>
                /\ ENABLED (SetReadOnly(CellOf(p), TRUE) /\ pc'[p] = "checked")
                /\ readOnly[CellOf(p)] =>
                        ENABLED (/\ MutationInvoke(p)
                                 /\ connCalls'[<<ConnMethod(call[p]), CellOf(p)>>] = 1))
    /\ [][\A p \in Procs :
            (pc[p] = "checked" /\ pc'[p] # "checked") =>
                /\ pc'[p] = "conn"
                /\ readOnly' = readOnly
                /\ connCalls' = Inc(connCalls, <<ConnMethod(call[p]), CellOf(p)>>)]_vars
    /\ [](\A p \in Procs :
            (pc[p] = "done" /\ ret[p].err.kind = "READ_ONLY") =>
                ENABLED (SetReadOnly(CellOf(p), FALSE) /\ ret'[p] = ret[p]))

\* A mutation of one StatsConn passed the check, the flag is true by now and
\* the Conn call is what comes next; a Create of the other StatsConn was
\* rejected and the flag is false by now.
C13_Witness ==
    \E p, q \in Procs :
        /\ pc[p] = "checked"
        /\ call[p].op \in MutationOps
        /\ readOnly[CellOf(p)]
        /\ ENABLED (/\ MutationInvoke(p)
                     /\ pc'[p] = "conn"
                     /\ readOnly'[CellOf(p)]
                     /\ connCalls'[<<ConnMethod(call[p]), CellOf(p)>>] = 1)
        /\ pc[q] = "done"
        /\ call[q].op = "Create"
        /\ ret[q].err.kind = "READ_ONLY"
        /\ ~readOnly[CellOf(q)]
        /\ connCalls[<<"Create", CellOf(q)>>] = 0

\* The kinds of the steps of a call, in order, a leading "queued" left out.
C14_Order(p) ==
    LET t == SelectSeq(trace[p], LAMBDA e : e.ev # "queued")
    IN  [i \in DOMAIN t |-> t[i].ev]

(***************************************************************************)
(* C14: the steps of a read that gets a weight are, in this order: the     *)
(* weight acquired, one read-wait sample under (operation, cell), the      *)
(* wrapped Conn called, its return, one error count if and only if it      *)
(* returned an error, one timing, the weight released, and then the call   *)
(* returns.  The read-wait sample never follows the Conn call and the      *)
(* weight is never released before the Conn call has returned.             *)
(***************************************************************************)
C14_ReadStepOrder ==
    \A p \in Procs :
        (call[p].op \in ReadOps /\ Delegated(p)) =>
            LET failed == EvCount(p, "connret") = 1
                            /\ EvSeq(p, "connret")[1].err # NoErr
            IN  /\ pc[p] \in {"conn", "done"}
                /\ pc[p] = "conn" =>
                        C14_Order(p) = <<"acquire", "readwait", "conn">>
                /\ pc[p] = "done" =>
                        C14_Order(p) =
                            IF failed
                            THEN <<"acquire", "readwait", "conn", "connret",
                                   "error", "timing", "release">>
                            ELSE <<"acquire", "readwait", "conn", "connret",
                                   "timing", "release">>
                /\ \A i \in DOMAIN trace[p] :
                        trace[p][i].ev \in {"acquire", "readwait", "error", "timing", "release"}
                            => (/\ trace[p][i].name = call[p].op
                                /\ trace[p][i].cell = CellOf(p))
                /\ EvPos(p, "readwait") < EvPos(p, "conn")
                /\ EvCount(p, "release") = 1 => EvPos(p, "connret") < EvPos(p, "release")
                /\ waits[<<call[p].op, CellOf(p)>>] >= 1

\* A read that queued, got its weight from a release, failed in the wrapped
\* Conn and has returned: all eight steps, the error count included.
C14_Witness ==
    \E p \in Procs :
        /\ pc[p] = "done"
        /\ call[p].op = "GetVersion"
        /\ Len(trace[p]) = 8
        /\ trace[p][1].ev = "queued"
        /\ trace[p][6].ev = "error"
        /\ trace[p][8].ev = "release"
        /\ ret[p].err = ConnErr
        /\ waits[<<"GetVersion", CellOf(p)>>] = 1
        /\ cur = 0

\* The calls that count the errors of the wrapped Conn besides the reads.
C15_Ops == MutationOps \cup {"NewLeaderParticipation"}

(***************************************************************************)
(* C15: a delegated Create, Update, Delete, NewLeaderParticipation, Lock,  *)
(* LockWithTTL, LockName or TryLock adds one to the error count of its     *)
(* (label, cell) key if and only if the wrapped Conn returned an error,    *)
(* and nothing if it returned nil; the error of the Conn's TryLock (the    *)
(* lock is taken) is counted under "Lock".                                 *)
(***************************************************************************)
C15_ErrorsCountedOnce ==
    /\ \A p \in Procs :
        (call[p].op \in C15_Ops /\ pc[p] = "done" /\ Delegated(p)) =>
            LET err == EvSeq(p, "connret")[1].err
                e == EvSeq(p, "error")
            IN  /\ Len(e) = (IF err # NoErr THEN 1 ELSE 0)
                /\ \A i \in DOMAIN e :
                    /\ e[i].name = StatsLabel(call[p])
                    /\ e[i].cell = CellOf(p)
                /\ (call[p].op = "TryLock" /\ err # NoErr) =>
                    /\ e[1].name = "Lock"
                    /\ errors[<<"Lock", CellOf(p)>>] = 1
    /\ \A p \in Procs :
        (call[p].op \in C15_Ops /\ ~(pc[p] = "done" /\ Delegated(p))) =>
            EvCount(p, "error") = 0
    /\ LET mine == {p \in Procs : call[p].op \in C15_Ops}
           n == [k \in Keys |-> Cardinality({p \in mine :
                    /\ EvCount(p, "error") = 1
                    /\ StatsKey(call[p]) = k})]
       IN  \A k \in (Labels \ ReadOps) \X Cells : errors[k] = n[k]

\* The Conn's TryLock refused: one error under "Lock"; a Create of the other
\* StatsConn succeeded: no error under "Create".
C15_Witness ==
    \E p, q \in Procs :
        /\ pc[p] = "done" /\ call[p].op = "TryLock"
        /\ ret[p].err = ConnErr
        /\ errors[<<"Lock", CellOf(p)>>] = 1
        /\ pc[q] = "done" /\ call[q].op = "Create"
        /\ Delegated(q)
        /\ ret[q].err = NoErr
        /\ errors[<<"Create", CellOf(q)>>] = 0
        /\ timings[<<"Create", CellOf(q)>>] = 1

C16_Ops == {"Watch", "WatchRecursive", "Close"}

(***************************************************************************)
(* C16: Watch, WatchRecursive and Close record one timing per call, under  *)
(* their name and cell, when the wrapped Conn returns, and nothing else:   *)
(* no step of them changes an error count or a read-wait sample, also when *)
(* the Conn's Watch or WatchRecursive returns an error.                    *)
(***************************************************************************)
C16_WatchCloseTimingOnly ==
    /\ [][\A p \in Procs :
            (call'[p].op \in C16_Ops /\ pc'[p] # pc[p]) =>
                /\ errors' = errors
                /\ waits' = waits
                /\ pc[p] = "idle" => timings' = timings
                /\ pc[p] = "conn" =>
                    /\ pc'[p] = "done"
                    /\ timings' = Inc(timings, <<call[p].op, CellOf(p)>>)]_vars
    /\ [](\A p \in Procs :
            (call[p].op \in C16_Ops /\ pc[p] = "done") =>
                /\ EvCount(p, "timing") = 1
                /\ EvCount(p, "error") = 0
                /\ EvCount(p, "readwait") = 0
                /\ timings[<<call[p].op, CellOf(p)>>] = 1
                /\ errors[<<call[p].op, CellOf(p)>>] = 0
                /\ waits[<<call[p].op, CellOf(p)>>] = 0)

\* A WatchRecursive failed in the wrapped Conn and has returned the error:
\* one timing, and every error count and read-wait sample is still 0.
C16_Witness ==
    \E p \in Procs :
        /\ pc[p] = "done" /\ call[p].op = "WatchRecursive"
        /\ ret[p].err = ConnErr
        /\ timings[<<"WatchRecursive", CellOf(p)>>] = 1
        /\ \A k \in Keys : errors[k] = 0 /\ waits[k] = 0
        /\ \A q \in Procs \ {p} : pc[q] = "idle"

\* The label and the Conn method of C17, as the claim words them.
C17_Label(kind, expiry) ==
    CASE kind = "Named" -> "LockName"
      [] kind # "Named" /\ expiry # 0 -> "LockWithTTL"
      [] kind # "Named" /\ expiry = 0 -> "Lock"

C17_Method(kind, expiry) ==
    CASE kind = "NonBlocking" -> "TryLock"
      [] kind = "Named" -> "LockName"
      [] kind = "Blocking" /\ expiry # 0 -> "LockWithTTL"
      [] kind = "Blocking" /\ expiry = 0 -> "Lock"

(***************************************************************************)
(* C17: for every lock type (Blocking, NonBlocking, Named) and every       *)
(* ttl >= 0 given to internalLock, the label is "LockName" for Named       *)
(* whatever the ttl, else "LockWithTTL" for a nonzero ttl, else "Lock";    *)
(* the Conn method called is TryLock for NonBlocking, LockName for Named,  *)
(* else LockWithTTL with that ttl for a nonzero ttl, else Lock.  Named     *)
(* with a ttl of 5 is labelled "LockName" and calls the Conn's LockName.   *)
(***************************************************************************)
C17_DispatchTable ==
    /\ \A kind \in LockTypes, expiry \in Expiries :
        /\ LockLabel(kind, expiry) = C17_Label(kind, expiry)
        /\ LockMethod(kind, expiry) = C17_Method(kind, expiry)
    /\ LockLabel("Named", 5) = "LockName" /\ LockMethod("Named", 5) = "LockName"
    /\ \A p \in Procs :
        call[p].lockType \in LockTypes =>
            LET kind == call[p].lockType
                expiry == call[p].ttl
                c == EvSeq(p, "conn")
                m == EvSeq(p, "timing") \o EvSeq(p, "error")
            IN  /\ Len(c) <= 1
                /\ \A i \in DOMAIN c :
                    /\ c[i].name = C17_Method(kind, expiry)
                    /\ c[i].ttl = (IF c[i].name = "LockWithTTL" THEN expiry ELSE 0)
                    /\ connCalls[<<C17_Method(kind, expiry), CellOf(p)>>] = 1
                /\ \A i \in DOMAIN m : m[i].name = C17_Label(kind, expiry)
                /\ pc[p] = "done" =>
                    IF Delegated(p)
                    THEN timings[<<C17_Label(kind, expiry), CellOf(p)>>] = 1
                    ELSE ret[p].err = ReadOnlyErr(C17_Label(kind, expiry), call[p].path)

\* internalLock(Named, 5) has returned: the Conn's LockName was called, without
\* a ttl, and the timing is under "LockName".
C17_Witness ==
    \E p \in Procs :
        /\ pc[p] = "done"
        /\ call[p].lockType = "Named"
        /\ call[p].ttl = 5
        /\ Delegated(p)
        /\ EvSeq(p, "conn")[1].name = "LockName"
        /\ EvSeq(p, "conn")[1].ttl = 0
        /\ connCalls[<<"LockName", CellOf(p)>>] = 1
        /\ connCalls[<<"LockWithTTL", CellOf(p)>>] = 0
        /\ timings[<<"LockName", CellOf(p)>>] = 1
        /\ timings[<<"LockWithTTL", CellOf(p)>>] = 0

C19_ZeroTTLIsLock ==
    \A p \in Procs :
        (call[p].op = "LockWithTTL" /\ call[p].ttl = 0) =>
            LET asLock == [call[p] EXCEPT !.op = "Lock"]
                c == EvSeq(p, "conn")
                m == EvSeq(p, "timing") \o EvSeq(p, "error")
                cell == CellOf(p)
            IN  /\ StatsKey(call[p]) = <<"Lock", cell>>
                /\ StatsKey(call[p]) = StatsKey(asLock)
                /\ ConnMethod(call[p]) = ConnMethod(asLock)
                /\ \A i \in DOMAIN c : c[i].name = "Lock" /\ c[i].ttl = 0
                /\ \A i \in DOMAIN m : m[i].name = "Lock"
                /\ connCalls[<<"LockWithTTL", cell>>] = 0
                /\ connCalls[<<"Lock", cell>>] = Len(c)
                /\ timings[<<"LockWithTTL", cell>>] = 0
                /\ errors[<<"LockWithTTL", cell>>] = 0
                /\ timings[<<"Lock", cell>>] = EvCount(p, "timing")
                /\ errors[<<"Lock", cell>>] = EvCount(p, "error")
                /\ pc[p] = "done" =>
                    IF Delegated(p)
                    THEN /\ EvCount(p, "timing") = 1
                         /\ EvCount(p, "error") = (IF ret[p].err # NoErr THEN 1 ELSE 0)
                    ELSE ret[p].err = ReadOnlyErr("Lock", call[p].path)

\* LockWithTTL(ttl = 0) failed in the Conn's Lock: timing and error are under
\* "Lock".
C19_Witness ==
    \E p \in Procs :
        /\ pc[p] = "done"
        /\ call[p].op = "LockWithTTL"
        /\ call[p].ttl = 0
        /\ ret[p].err = ConnErr
        /\ connCalls[<<"Lock", CellOf(p)>>] = 1
        /\ timings[<<"Lock", CellOf(p)>>] = 1
        /\ errors[<<"Lock", CellOf(p)>>] = 1

(***************************************************************************)
(* C20: the readOnly flag does not reach the reads.  With the flag true,   *)
(* ListDir, Get, GetVersion and List can be called, take a weight, are     *)
(* delegated to the wrapped Conn and return its result and error; what a   *)
(* read does depends on its ctx and on the semaphore only, and no read     *)
(* returns the READ_ONLY error.                                            *)
(***************************************************************************)
C20_ReadsIgnoreReadOnly ==
    /\ [](\A p \in Procs :
            (pc[p] = "idle" /\ readOnly[CellOf(p)]) =>
                /\ ENABLED ListDir(p)
                /\ ENABLED Get(p)
                /\ ENABLED GetVersion(p)
                /\ ENABLED List(p))
    /\ [][\A p \in Procs :
            (pc[p] = "idle" /\ pc'[p] # "idle" /\ call'[p].op \in ReadOps) =>
                IF ctxDone'[p]
                THEN pc'[p] = "done" /\ ret'[p].err = CtxErr
                ELSE IF cur < size /\ waiters = <<>>
                     THEN /\ pc'[p] = "conn"
                          /\ cur' = cur + 1
                          /\ connCalls' = Inc(connCalls, <<call'[p].op, CellOf(p)>>)
                     ELSE /\ pc'[p] = "wait"
                          /\ waiters' = Append(waiters, p)]_vars
    /\ [](\A p \in Procs :
            call[p].op \in ReadOps =>
                /\ ret[p].err.kind # "READ_ONLY"
                /\ (pc[p] = "conn" /\ readOnly[CellOf(p)]) =>
                        \A res \in ConnResults, err \in ConnErrors :
                            ENABLED (ReadReturn(p) /\ ret'[p] = [res |-> res, err |-> err]))

\* Both flags are true; a List of one StatsConn has returned the Conn's result
\* and a Get of the other can be called and goes into the wrapped Conn.
C20_Witness ==
    \E p, q \in Procs :
        /\ readOnly[CellOf(p)] /\ readOnly[CellOf(q)]
        /\ CellOf(p) # CellOf(q)
        /\ pc[q] = "done"
        /\ call[q].op = "List"
        /\ Delegated(q)
        /\ ret[q] = [res |-> "v1", err |-> NoErr]
        /\ pc[p] = "idle"
        /\ ENABLED (/\ Get(p)
                     /\ pc'[p] = "conn"
                     /\ readOnly'[CellOf(p)]
                     /\ connCalls'[<<"Get", CellOf(p)>>] = 1)

====
